---- MODULE Spec2Model ----
(***************************************************************************)
(* Session / profile synchronisation of AuthProvider                       *)
(* (src/src/contexts/AuthContext.tsx) and the Dashboard that consumes it   *)
(* (src/src/pages/Dashboard.tsx).                                          *)
(*                                                                         *)
(* One step of the model is one turn of the JavaScript event loop: the     *)
(* synchronous code that runs from the arrival of an input (an auth event, *)
(* a backend response, a timer, a call from the UI) up to the next await   *)
(* whose promise is still pending, together with the continuations that    *)
(* the settled promise resumes as microtasks in the same turn.             *)
(***************************************************************************)
EXTENDS Integers, Sequences, FiniteSets, TLC

VARIABLES
    user,                \* useState user: a principal id or NoUser
    profile,             \* useState profile: a profile row or NoProfile
    session,             \* useState session: a session or NoSession
    loading,             \* useState loading
    fetchingProfile,     \* useRef: 0 = null, n > 0 = pending fetch n, Settled
    mounted,             \* let mounted (effect closure)
    initialLoadComplete, \* let initialLoadComplete (effect closure)
    initPc,              \* position of initializeAuth
    fetches,             \* the pending inner fetch promises, oldest first;
                         \* each has issued one backend profile query
    signInPc,            \* position of a signIn call
    signOutPc,           \* position of a signOut call
    initialSessionSent,  \* the subscription has delivered INITIAL_SESSION
    authUser,            \* the identity backend's current principal
    tracked,             \* the principal id whose queries are counted, or
                         \* NoUser when none is (history)
    credit,              \* times user changed to `tracked` minus profile
                         \* queries issued for it (history)
    op                   \* the last turn taken (history, for the properties)

vars == << user, profile, session, loading, fetchingProfile, mounted,
           initialLoadComplete, initPc, fetches, signInPc, signOutPc,
           initialSessionSent, authUser, tracked, credit, op >>

----------------------------------------------------------------------------
(* Bounds of the model.                                                    *)

MaxHandlers == 1
MaxCredit == 1

----------------------------------------------------------------------------
(* Values.                                                                 *)

Users == {"u1", "u2"}
NoUser == "null"

\* The rows of the profiles table: the role each principal's row holds.
RoleOf(u) == IF u = "u1" THEN "admin" ELSE "student"

\* Token material of a session; a refresh delivers another token.
Toks == {"t1", "t2"}
NoTok == "null"
NoSession == [user |-> NoUser, tok |-> NoTok]
SessionOf(u, t) == [user |-> u, tok |-> t]
Sessions == {SessionOf(u, t) : u \in Users, t \in Toks}

NoProfile == [id |-> NoUser, role |-> "null"]
ProfileRow(u) == [id |-> u, role |-> RoleOf(u)]

Settled == -1

Events == {"SIGNED_IN", "SIGNED_OUT", "TOKEN_REFRESHED", "USER_UPDATED",
           "PASSWORD_RECOVERY", "INITIAL_SESSION", "MFA_CHALLENGE_VERIFIED"}

\* What the profile query of one fetch can do: a row, the PGRST116 error,
\* another returned error, a rejected promise, or nothing before the timer.
QueryOutcomes == {"row", "notFound", "error", "throw"}

\* The last turn: its kind, the event or result it carried, and for a settled
\* fetch the principal id the fetch was started for and whether initializeAuth
\* was one of the callers it resumed.
Op(k, e, u) == [kind |-> k, event |-> e, user |-> u, init |-> FALSE]

----------------------------------------------------------------------------
(* fetchProfile (AuthContext.tsx 52-117).                                  *)

\* Position of pending fetch n in fetches, 0 when n is not pending.
FetchIndex(n) ==
    IF \E i \in 1..Len(fetches) : fetches[i].id = n
    THEN CHOOSE i \in 1..Len(fetches) : fetches[i].id = n
    ELSE 0

FetchInProgress_NoCheck(userId) == FALSE

\* An identity for the promise a new fetch creates.
NewId == CHOOSE n \in 1..(Len(fetches) + 1) :
            \A i \in 1..Len(fetches) : fetches[i].id # n

\* Line 54: if (fetchingProfile.current). The user id is not compared.
FetchInProgress(userId) == fetchingProfile # 0

\* The synchronous part of fetchProfile(userId) called by `who`: lines 54-57
\* join the promise in the slot; otherwise lines 60-79 start the query and
\* the timer and line 114 stores the promise. `throws` is the query builder
\* throwing before the first await: the catch and finally of lines 97-110
\* then run before line 114 stores the already resolved promise.
\* suspended = the awaited promise is still pending after this turn.
FetchProfileCall(userId, who, throws) ==
    LET w == [who |-> who, uid |-> userId]
        i == FetchIndex(fetchingProfile)
    IN  IF FetchInProgress(userId)
        THEN IF i # 0
             THEN [fetches |-> [fetches EXCEPT ![i].waiters = Append(@, w)],
                   slot |-> fetchingProfile, suspended |-> TRUE]
             ELSE [fetches |-> fetches, slot |-> fetchingProfile,
                   suspended |-> FALSE]
        ELSE IF throws
             THEN [fetches |-> fetches, slot |-> Settled, suspended |-> FALSE]
             ELSE [fetches |-> Append(fetches, [id |-> NewId,
                                                uid |-> userId,
                                                waiters |-> << w >>]),
                   slot |-> NewId, suspended |-> TRUE]

ProfileAfterFetch_DropsRow(o, userId, old) == NoProfile

\* Lines 80-106: what the settled race does to the profile state. The query
\* is .eq('id', userId), so a returned row carries the requested id.
ProfileAfterFetch(o, userId, old) ==
    CASE o = "row" -> ProfileRow(userId)
      [] o \in {"notFound", "error"} -> NoProfile
      [] o = "timeout" -> NoProfile
      [] OTHER -> old

----------------------------------------------------------------------------
(* The code after `await fetchProfile` of the two callers.                 *)

\* Lines 152-160 of the auth-event handler.
HandlerTail(event, ctl) ==
    IF event = "INITIAL_SESSION"
    THEN [ilc |-> TRUE, loading |-> FALSE]
    ELSE IF event = "SIGNED_IN" /\ ctl.ilc
         THEN [ctl EXCEPT !.loading = FALSE]
         ELSE ctl

InitTail_KeepsLoading(ctl) == [ctl EXCEPT !.ilc = TRUE]

\* Lines 202-204 of initializeAuth.
InitTail(ctl) == [ilc |-> TRUE, loading |-> FALSE]

ResumeWaiter(w, ctl) ==
    IF w.who = "init" THEN InitTail(ctl) ELSE HandlerTail(w.who, ctl)

\* The waiters of a settled promise resume in the order they awaited it.
RECURSIVE ResumeAll(_, _)
ResumeAll(ws, ctl) ==
    IF ws = << >> THEN ctl
    ELSE ResumeAll(Tail(ws), ResumeWaiter(Head(ws), ctl))

Ctl == [ilc |-> initialLoadComplete, loading |-> loading]

HandlerWaiters ==
    LET RECURSIVE Count(_)
        Count(i) == IF i = 0 THEN 0
                    ELSE Count(i - 1) +
                         Cardinality({j \in 1..Len(fetches[i].waiters) :
                                        fetches[i].waiters[j].who # "init"})
    IN Count(Len(fetches))

\* The history of a turn: setUser changed user to the tracked id (lines 142,
\* 195), a query for it was issued (lines 70-74). The balance is followed
\* exactly within 0..MaxCredit; once below or above, it stays at -1 or
\* MaxCredit + 1.
CreditAfterTurn ==
    LET gained == IF user' = tracked /\ user # tracked THEN 1 ELSE 0
        spent == IF /\ Len(fetches') > Len(fetches)
                    /\ fetches'[Len(fetches')].uid = tracked THEN 1 ELSE 0
    IN  IF tracked = NoUser \/ credit \in {-1, MaxCredit + 1} THEN credit
        ELSE credit + gained - spent

----------------------------------------------------------------------------
(* The state after the mount effect has run (lines 43-50, 119-219): the    *)
(* handler is subscribed and initializeAuth is waiting for getSession.     *)

Init ==
    /\ user = NoUser
    /\ profile = NoProfile
    /\ session = NoSession
    /\ loading = TRUE
    /\ fetchingProfile = 0
    /\ mounted = TRUE
    /\ initialLoadComplete = FALSE
    /\ initPc = "getSession"
    /\ fetches = << >>
    /\ signInPc = "idle"
    /\ signOutPc = "idle"
    /\ initialSessionSent = FALSE
    /\ authUser \in Users \cup {NoUser}
    /\ tracked = NoUser
    /\ credit = 0
    /\ op = Op("mount", "none", NoUser)

\* The same state, with the queries of one principal id counted.
InitCounting ==
    /\ user = NoUser
    /\ profile = NoProfile
    /\ session = NoSession
    /\ loading = TRUE
    /\ fetchingProfile = 0
    /\ mounted = TRUE
    /\ initialLoadComplete = FALSE
    /\ initPc = "getSession"
    /\ fetches = << >>
    /\ signInPc = "idle"
    /\ signOutPc = "idle"
    /\ initialSessionSent = FALSE
    /\ authUser \in Users \cup {NoUser}
    /\ tracked \in Users
    /\ credit = 0
    /\ op = Op("mount", "none", NoUser)

----------------------------------------------------------------------------
(* The auth-event handler (lines 124-162).                                 *)

\* A session object the backend hands out is a new one: its token is not
\* the token of the session currently held.
FreshTok == IF session.tok = "t1" THEN "t2" ELSE "t1"

\* The sessions the identity backend can deliver with an event.
EventSessions(event) ==
    CASE event = "SIGNED_OUT" -> {NoSession}
      [] event \in {"SIGNED_IN", "PASSWORD_RECOVERY"} ->
            {SessionOf(u, FreshTok) : u \in Users}
      [] event = "INITIAL_SESSION" ->
            IF authUser = NoUser THEN {NoSession}
            ELSE {SessionOf(authUser, FreshTok)}
      [] OTHER -> {SessionOf(u, FreshTok) : u \in Users \cap {authUser}}

IsTokenRefresh_Never(event) == FALSE

\* Lines 131-134.
IsTokenRefresh(event) == event = "TOKEN_REFRESHED"

SkipsInitialSession_Never(event) == FALSE

\* Lines 137-139.
SkipsInitialSession(event) ==
    event = "INITIAL_SESSION" /\ initialLoadComplete

\* Line 144.
FetchesProfile(event, s) ==
    s.user # NoUser /\ event \in {"SIGNED_IN", "INITIAL_SESSION"}

\* Line 148.
ClearsProfile(event, s) == s = NoSession \/ event = "SIGNED_OUT"

OnAuthStateChange(event, s, throws) ==
    /\ mounted
    /\ event \in Events /\ s \in EventSessions(event)
    /\ event = "INITIAL_SESSION" => ~initialSessionSent
    /\ initialSessionSent' = (initialSessionSent \/ event = "INITIAL_SESSION")
    /\ authUser' = IF event \in {"SIGNED_IN", "SIGNED_OUT", "PASSWORD_RECOVERY"}
                   THEN s.user ELSE authUser
    /\ signInPc' = IF event = "SIGNED_IN" /\ signInPc = "await"
                   THEN "emitted" ELSE signInPc
    /\ signOutPc' = IF event = "SIGNED_OUT" /\ signOutPc = "await"
                    THEN "emitted" ELSE signOutPc
    /\ op' = Op("event", event, NoUser)
    /\ UNCHANGED << mounted, initPc >>
    /\ IF IsTokenRefresh(event)
       THEN /\ session' = s
            /\ UNCHANGED << user, profile, loading, fetchingProfile,
                            initialLoadComplete, fetches >>
       ELSE IF SkipsInitialSession(event)
       THEN UNCHANGED << user, profile, session, loading, fetchingProfile,
                         initialLoadComplete, fetches >>
       ELSE IF FetchesProfile(event, s)
       THEN LET call == FetchProfileCall(s.user, event, throws)
                ctl == IF call.suspended THEN Ctl
                       ELSE HandlerTail(event, Ctl)
            IN  /\ call.suspended => HandlerWaiters < MaxHandlers
                /\ session' = s
                /\ user' = s.user
                /\ fetches' = call.fetches
                /\ fetchingProfile' = call.slot
                /\ initialLoadComplete' = ctl.ilc
                /\ loading' = ctl.loading
                /\ UNCHANGED profile
       ELSE LET ctl == HandlerTail(event, Ctl)
            IN  /\ session' = s
                /\ user' = s.user
                /\ profile' = IF ClearsProfile(event, s) THEN NoProfile
                              ELSE profile
                /\ initialLoadComplete' = ctl.ilc
                /\ loading' = ctl.loading
                /\ UNCHANGED << fetchingProfile, fetches >>
    /\ credit' = CreditAfterTurn
    /\ UNCHANGED tracked

\* The query builder can only throw in a turn that starts a query.
ThrowChoices(starts) == IF starts THEN BOOLEAN ELSE {FALSE}

AuthEvent ==
    \E event \in Events : \E s \in EventSessions(event) :
        \E throws \in ThrowChoices(/\ ~IsTokenRefresh(event)
                                    /\ ~SkipsInitialSession(event)
                                    /\ FetchesProfile(event, s)
                                    /\ ~FetchInProgress(s.user)) :
            OnAuthStateChange(event, s, throws)

----------------------------------------------------------------------------
(* initializeAuth (lines 165-217): the turn in which getSession settles.   *)

GetSessionResults == {"session", "error", "throw"}

\* Lines 172-179: getSession returned an error.
InitErrorBranch(ctl) == [ctl EXCEPT !.loading = FALSE]

InitNoSessionBranch_NoMark(ctl) == [ctl EXCEPT !.loading = FALSE]

\* Lines 184-191: no session.
InitNoSessionBranch(ctl) == [ilc |-> TRUE, loading |-> FALSE]

\* Lines 207-216: the catch block, reached with the component mounted.
InitCatchBranch(ctl) == [ilc |-> TRUE, loading |-> FALSE]

GetSessionSettles(res, throws) ==
    /\ initPc = "getSession"
    /\ op' = Op("getSession", res, NoUser)
    /\ UNCHANGED << mounted, signInPc, signOutPc, initialSessionSent, authUser >>
    /\ IF ~mounted
       THEN \* line 170, and line 209 for a rejected getSession
            /\ initPc' = "done"
            /\ UNCHANGED << user, profile, session, loading, fetchingProfile,
                            initialLoadComplete, fetches >>
       ELSE IF res \in {"error", "throw"} \/ authUser = NoUser
       THEN LET ctl == CASE res = "error" -> InitErrorBranch(Ctl)
                         [] res = "throw" -> InitCatchBranch(Ctl)
                         [] OTHER -> InitNoSessionBranch(Ctl)
            IN  /\ session' = NoSession
                /\ user' = NoUser
                /\ profile' = NoProfile
                /\ loading' = ctl.loading
                /\ initialLoadComplete' = ctl.ilc
                /\ initPc' = "done"
                /\ UNCHANGED << fetchingProfile, fetches >>
       ELSE \* lines 194-204
            LET call == FetchProfileCall(authUser, "init", throws)
                ctl == IF call.suspended THEN Ctl ELSE InitTail(Ctl)
            IN  /\ session' = SessionOf(authUser, FreshTok)
                /\ user' = authUser
                /\ fetches' = call.fetches
                /\ fetchingProfile' = call.slot
                /\ initialLoadComplete' = ctl.ilc
                /\ loading' = ctl.loading
                /\ initPc' = IF call.suspended THEN "fetch" ELSE "done"
                /\ UNCHANGED profile
    /\ credit' = CreditAfterTurn
    /\ UNCHANGED tracked

InitializeAuth ==
    \E res \in GetSessionResults :
        LET starts == mounted /\ res = "session" /\ authUser # NoUser
        IN  \E throws \in ThrowChoices(starts /\ ~FetchInProgress(authUser)) :
                GetSessionSettles(res, throws)

----------------------------------------------------------------------------
(* The turn in which the race of line 79 settles: lines 80-110 of the      *)
(* inner fetch, then the awaiting callers in the order they awaited.       *)

RemoveAt(q, i) == SubSeq(q, 1, i - 1) \o SubSeq(q, i + 1, Len(q))

HasInitWaiter(ws) == \E j \in 1..Len(ws) : ws[j].who = "init"

\* Line 109: the finally block clears the slot, whatever it holds.
SlotAfterSettle(id) == 0

SettleFetch_DropsSession(i, o) ==
    LET f == fetches[i]
        ctl == ResumeAll(f.waiters, Ctl)
    IN  /\ profile' = ProfileAfterFetch(o, f.uid, profile)
        /\ user' = IF o = "timeout" THEN NoUser ELSE user
        /\ session' = IF o = "timeout" THEN NoSession ELSE session
        /\ fetchingProfile' = SlotAfterSettle(f.id)
        /\ fetches' = RemoveAt(fetches, i)
        /\ initialLoadComplete' = ctl.ilc
        /\ loading' = ctl.loading
        /\ initPc' = IF HasInitWaiter(f.waiters) THEN "done" ELSE initPc
        /\ op' = [Op("settle", o, f.uid) EXCEPT
                      !.init = HasInitWaiter(f.waiters)]
        /\ UNCHANGED << mounted, signInPc, signOutPc, initialSessionSent,
                        authUser,
                    tracked, credit >>

SettleFetch(i, o) ==
    LET f == fetches[i]
        ctl == ResumeAll(f.waiters, Ctl)
    IN  /\ profile' = ProfileAfterFetch(o, f.uid, profile)
        /\ fetchingProfile' = SlotAfterSettle(f.id)
        /\ fetches' = RemoveAt(fetches, i)
        /\ initialLoadComplete' = ctl.ilc
        /\ loading' = ctl.loading
        /\ initPc' = IF HasInitWaiter(f.waiters) THEN "done" ELSE initPc
        /\ op' = [Op("settle", o, f.uid) EXCEPT
                      !.init = HasInitWaiter(f.waiters)]
        /\ UNCHANGED << user, session, mounted, signInPc, signOutPc,
                        initialSessionSent, authUser,
                    tracked, credit >>

\* The profile query answers (or rejects) before the timer.
QueryResolves == \E i \in 1..Len(fetches), o \in QueryOutcomes :
                    SettleFetch(i, o)

\* Line 66: the 10 s timer rejects the race first.
FetchTimeout == \E i \in 1..Len(fetches) : SettleFetch(i, "timeout")

----------------------------------------------------------------------------
(* The effect cleanup (lines 221-224).                                     *)

Unmount ==
    /\ mounted
    /\ mounted' = FALSE
    /\ op' = Op("unmount", "none", NoUser)
    /\ UNCHANGED << user, profile, session, loading, fetchingProfile,
                    initialLoadComplete, initPc, fetches, signInPc, signOutPc,
                    initialSessionSent, authUser,
                    tracked, credit >>

----------------------------------------------------------------------------
(* signIn (227-255), signUp (257-295), signOut (297-314), called by the    *)
(* children of the provider while it is mounted, one call at a time.       *)

\* Line 229, up to the await of line 230.
SignInCall ==
    /\ mounted
    /\ signInPc = "idle" /\ signOutPc = "idle"
    /\ signInPc' = "await"
    /\ loading' = TRUE
    /\ op' = Op("signIn", "call", NoUser)
    /\ UNCHANGED << user, profile, session, fetchingProfile, mounted,
                    initialLoadComplete, initPc, fetches, signOutPc,
                    initialSessionSent, authUser,
                    tracked, credit >>

SignInReturn_KeepsLoading(res) ==
    /\ \/ res = "ok" /\ (signInPc = "emitted" \/ (signInPc = "await" /\ ~mounted))
       \/ res \in {"error", "throw"} /\ signInPc = "await"
    /\ signInPc' = "idle"
    /\ op' = Op("signIn", res, NoUser)
    /\ UNCHANGED << user, profile, session, loading, fetchingProfile, mounted,
                    initialLoadComplete, initPc, fetches, signOutPc,
                    initialSessionSent, authUser,
                    tracked, credit >>

\* Lines 235-254. A successful signInWithPassword has emitted SIGNED_IN to
\* the subscribed handler before it resolves.
SignInReturn(res) ==
    /\ \/ res = "ok" /\ (signInPc = "emitted" \/ (signInPc = "await" /\ ~mounted))
       \/ res \in {"error", "throw"} /\ signInPc = "await"
    /\ signInPc' = "idle"
    /\ loading' = IF res = "ok" THEN loading ELSE FALSE
    /\ op' = Op("signIn", res, NoUser)
    /\ UNCHANGED << user, profile, session, fetchingProfile, mounted,
                    initialLoadComplete, initPc, fetches, signOutPc,
                    initialSessionSent, authUser,
                    tracked, credit >>

SignIn == SignInCall \/ \E res \in {"ok", "error", "throw"} : SignInReturn(res)

\* signUp touches no state of the provider; it only raises a toast.
SignUp ==
    /\ mounted
    /\ \E res \in {"ok", "error", "throw"} : op' = Op("signUp", res, NoUser)
    /\ UNCHANGED << user, profile, session, loading, fetchingProfile, mounted,
                    initialLoadComplete, initPc, fetches, signInPc, signOutPc,
                    initialSessionSent, authUser,
                    tracked, credit >>

\* Line 299, up to the await of line 300.
SignOutCall ==
    /\ mounted
    /\ signOutPc = "idle" /\ signInPc = "idle"
    /\ signOutPc' = "await"
    /\ loading' = TRUE
    /\ op' = Op("signOut", "call", NoUser)
    /\ UNCHANGED << user, profile, session, fetchingProfile, mounted,
                    initialLoadComplete, initPc, fetches, signInPc,
                    initialSessionSent, authUser,
                    tracked, credit >>

SignOutReturn_KeepsLoading(res) ==
    /\ \/ res = "ok" /\ (signOutPc = "emitted" \/ (signOutPc = "await" /\ ~mounted))
       \/ res = "throw" /\ signOutPc = "await"
    /\ signOutPc' = "idle"
    /\ loading' = loading
    /\ op' = Op("signOut", res, NoUser)
    /\ UNCHANGED << user, profile, session, fetchingProfile, mounted,
                    initialLoadComplete, initPc, fetches, signInPc,
                    initialSessionSent, authUser,
                    tracked, credit >>

\* Lines 301-313. A successful supabase.auth.signOut has emitted SIGNED_OUT
\* to the subscribed handler before it resolves.
SignOutReturn(res) ==
    /\ \/ res = "ok" /\ (signOutPc = "emitted" \/ (signOutPc = "await" /\ ~mounted))
       \/ res = "throw" /\ signOutPc = "await"
    /\ signOutPc' = "idle"
    /\ loading' = FALSE
    /\ op' = Op("signOut", res, NoUser)
    /\ UNCHANGED << user, profile, session, fetchingProfile, mounted,
                    initialLoadComplete, initPc, fetches, signInPc,
                    initialSessionSent, authUser,
                    tracked, credit >>

SignOut == SignOutCall \/ \E res \in {"ok", "throw"} : SignOutReturn(res)

----------------------------------------------------------------------------

Next ==
    \/ AuthEvent
    \/ InitializeAuth
    \/ QueryResolves
    \/ FetchTimeout
    \/ Unmount
    \/ SignIn
    \/ SignUp
    \/ SignOut

Spec == Init /\ [][Next]_vars

\* The same program with the queries of one principal id counted.
CountingSpec == InitCounting /\ [][Next]_vars

\* The backend answers getSession and the timer of line 66 fires.
FairSpec == Spec /\ WF_vars(InitializeAuth) /\ WF_vars(FetchTimeout)

\* The awaits of lines 230 and 300: the backend answers a pending signIn or
\* signOut call.
BackendAnswersCall ==
    \/ \E res \in {"ok", "error", "throw"} : SignInReturn(res)
    \/ \E res \in {"ok", "throw"} : SignOutReturn(res)

\* FairSpec, with pending signIn and signOut calls answered as well.
FairCallsSpec == FairSpec /\ WF_vars(BackendAnswersCall)

----------------------------------------------------------------------------
(* What the provider exposes (lines 316-331) and what Dashboard reads      *)
(* (Dashboard.tsx 8-11).                                                   *)

\* Lines 320-331: the context value (the three action functions left out).
value ==
    [user |-> user, profile |-> profile, session |-> session,
     loading |-> loading,
     isAdmin |-> profile.role = "admin",
     isLecturer |-> profile.role = "lecturer",
     isStudent |-> profile.role = "student"]

\* Dashboard.tsx line 8 destructures `initialized` from the context value;
\* a field the value does not hold reads as undefined, which is falsy.
DashboardInitialized ==
    IF "initialized" \in DOMAIN value THEN value["initialized"] ELSE FALSE

\* Lines 316-318: the roles the context value has a flag for.
RecognizedRoles == {"admin", "lecturer", "student"}

\* Dashboard.tsx lines 11-40: the view rendered from the destructured
\* context value, `initialized` being whatever line 8 read.
DashboardView(initialized) ==
    IF ~initialized \/ value.loading \/ value.profile = NoProfile
    THEN "loading"
    ELSE IF value.isAdmin THEN "admin"
    ELSE IF value.isLecturer THEN "lecturer"
    ELSE IF value.isStudent THEN "student"
    ELSE "roleNotRecognized"

----------------------------------------------------------------------------
(* Properties.                                                             *)

NothingInFlight ==
    /\ initPc = "done"
    /\ fetches = << >>
    /\ signInPc = "idle"
    /\ signOutPc = "idle"

\* C1: in every observable state the exposed profile is null or its id is
\* the id of the exposed principal.
C1_ProfileBelongsToUser ==
    profile = NoProfile \/ profile.id = user

\* C2: the initialized flag that dependent UI reads becomes true once the
\* first reconciliation has been marked complete (and from then on stays
\* true, as the completion mark is never withdrawn).
C2_ExposedInitializedOnceLoaded ==
    initialLoadComplete => DashboardInitialized

\* C3: calls of fetchProfile for the same principal id that are outstanding
\* at the same time wait for one and the same pending fetch, which has
\* issued one backend query and resumes them together when it settles.
C3_ConcurrentCallsShareOneQuery ==
    \A i, j \in 1..Len(fetches) :
        /\ (fetches[i].id = fetches[j].id) => (i = j)
        /\ \A a \in 1..Len(fetches[i].waiters), b \in 1..Len(fetches[j].waiters) :
              fetches[i].waiters[a].uid = fetches[j].waiters[b].uid => i = j

C3_Witness ==
    \E i \in 1..Len(fetches) :
        /\ Len(fetches[i].waiters) >= 2
        /\ fetches[i].waiters[1].uid = fetches[i].waiters[2].uid
        /\ fetches[i].waiters[1].uid = fetches[i].uid

\* C4: no auth event is handled while initializeAuth is still awaiting
\* getSession or its profile fetch.
C4_NoEventBeforeInitDone ==
    op.kind = "event" => initPc = "done"

\* C5: a TOKEN_REFRESHED event replaces the session and nothing else: user,
\* profile and loading keep their values and no profile fetch is started
\* or joined.
C5_TokenRefreshOnlySession ==
    [][(op'.kind = "event" /\ op'.event = "TOKEN_REFRESHED") =>
          /\ session' \in Sessions
          /\ session'.user = authUser
          /\ user' = user
          /\ profile' = profile
          /\ loading' = loading
          /\ fetches' = fetches
          /\ fetchingProfile' = fetchingProfile]_vars

C5_Witness ==
    /\ op.kind = "event" /\ op.event = "TOKEN_REFRESHED"
    /\ session \in Sessions
    /\ user = session.user
    /\ profile = ProfileRow(user)
    /\ ~loading

\* C6: when getSession returns an error or throws (component mounted),
\* initializeAuth ends with user, session and profile null, loading false
\* and the initial load marked complete.
C6_InitFailureEndsInitialized ==
    (op.kind = "getSession" /\ op.event \in {"error", "throw"} /\ mounted) =>
        /\ user = NoUser /\ session = NoSession /\ profile = NoProfile
        /\ ~loading
        /\ initialLoadComplete

\* C7: when a profile fetch has been settled by the timeout and the
\* operations that awaited it have finished (the provider is mounted and
\* nothing else is in flight), the profile is null and loading is false.
C7_TimeoutLeavesLoadingFalse ==
    (op.kind = "settle" /\ op.event = "timeout" /\ mounted /\ NothingInFlight) =>
        (profile = NoProfile /\ ~loading)

\* C8: after the handling of a SIGNED_OUT event, user, session and profile
\* are null and loading is false.
C8_SignedOutClearsAll ==
    (op.kind = "event" /\ op.event = "SIGNED_OUT") =>
        /\ user = NoUser /\ session = NoSession /\ profile = NoProfile
        /\ ~loading

AwaitsFetch(fs, who, uid) ==
    \E i \in 1..Len(fs) : \E j \in 1..Len(fs[i].waiters) :
        fs[i].waiters[j] = [who |-> who, uid |-> uid]

SessionEvents == {"SIGNED_IN", "USER_UPDATED", "PASSWORD_RECOVERY"}

\* C9: the handler of a SIGNED_IN, USER_UPDATED or PASSWORD_RECOVERY event
\* carrying a session adopts the session and its principal and calls
\* fetchProfile for that principal (it awaits a fetch, or the call returned
\* at once from an already settled promise); and when the fetch such a
\* handler awaits settles, loading is false.
C9_SessionEventsFetchThenClearLoading ==
    [][/\ (op'.kind = "event" /\ op'.event \in SessionEvents) =>
            /\ session' \in Sessions
            /\ user' = session'.user
            /\ \/ AwaitsFetch(fetches', op'.event, user')
               \/ fetchingProfile' = Settled
       /\ (op'.kind = "settle") =>
            \A i \in 1..Len(fetches) :
                (\A k \in 1..Len(fetches') : fetches'[k].id # fetches[i].id) =>
                    \A j \in 1..Len(fetches[i].waiters) :
                        fetches[i].waiters[j].who \in SessionEvents => ~loading'
      ]_vars

\* C10: with the backend answering getSession and the timer of the profile
\* fetch firing, loading eventually becomes false while the provider stays
\* mounted, whatever getSession and the profile query do.
C10_LoadingEventuallyFalse ==
    <>(~loading \/ ~mounted)

C10_Witness ==
    /\ op.kind = "settle" /\ op.event = "timeout"
    /\ mounted
    /\ initPc = "done"
    /\ initialLoadComplete
    /\ user # NoUser
    /\ profile = NoProfile
    /\ ~loading

\* C11: auth events are handled one after the other: no handling of an event
\* changes the exposed state while the handler of an earlier event is still
\* awaiting its profile fetch.
C11_EventsDoNotOverlap ==
    [][(/\ op'.kind = "event"
        /\ << user, profile, session, loading >>' #
              << user, profile, session, loading >>) =>
          HandlerWaiters = 0]_vars

\* C12: once the provider has unmounted, an asynchronous result that arrives
\* (getSession answering, a profile fetch settling and resuming its callers)
\* changes none of session, user, profile and loading.
C12_NoMutationAfterUnmount ==
    [][(~mounted /\ op'.kind \in {"getSession", "settle"}) =>
          << user, profile, session, loading >>' =
              << user, profile, session, loading >>]_vars

FetchErrors == {"notFound", "error", "throw", "timeout"}

\* C13: after a profile fetch has settled with an error of any kind (row not
\* found, a returned error, a thrown exception, the timeout) the exposed
\* profile is null.
C13_FetchErrorClearsProfile ==
    (op.kind = "settle" /\ op.event \in FetchErrors) => profile = NoProfile

OtherEvents == Events \ {"SIGNED_IN", "SIGNED_OUT", "TOKEN_REFRESHED",
                         "USER_UPDATED", "PASSWORD_RECOVERY"}

\* C14: the handler of an event of any other kind adopts the event's session
\* and principal, and calls fetchProfile for the principal when there is one
\* (it awaits a fetch, or the call returned at once) and clears the profile
\* when there is none.
C14_OtherEventIsSessionUpdate ==
    [][(op'.kind = "event" /\ op'.event \in OtherEvents) =>
          /\ session'.user = authUser
          /\ user' = session'.user
          /\ user' # NoUser =>
                \/ AwaitsFetch(fetches', op'.event, user')
                \/ fetchingProfile' = Settled
          /\ user' = NoUser => profile' = NoProfile]_vars

\* C15: when getSession answers with the session of principal u (provider
\* mounted), initializeAuth sets user and session to u's before it awaits
\* fetchProfile(u) and leaves loading and the completion mark alone while it
\* waits; and when the fetch for u it awaits returns u's row, with u still
\* the principal, it ends with user = u, u's session, profile = that row,
\* the initial load marked complete and loading false.
C15_InitWithSessionLoadsProfile ==
    [][/\ (/\ op'.kind = "getSession" /\ op'.event = "session"
           /\ mounted /\ authUser # NoUser) =>
             /\ user' = authUser
             /\ session' \in Sessions /\ session'.user = authUser
             /\ initPc' = "fetch" =>
                   /\ AwaitsFetch(fetches', "init", authUser)
                   /\ loading' = loading
                   /\ initialLoadComplete' = initialLoadComplete
       /\ (/\ op'.kind = "settle" /\ op'.event = "row" /\ op'.init
           /\ op'.user = user /\ AwaitsFetch(fetches, "init", user)) =>
             /\ user' = user
             /\ session' \in Sessions /\ session'.user = user'
             /\ profile' = ProfileRow(user') /\ profile'.role = RoleOf(user')
             /\ initialLoadComplete'
             /\ ~loading'
             /\ initPc' = "done"
      ]_vars

C15_Witness ==
    /\ op.kind = "settle" /\ op.event = "row" /\ op.init
    /\ op.user = user
    /\ session \in Sessions /\ session.user = user
    /\ profile = ProfileRow(user)
    /\ initialLoadComplete
    /\ ~loading
    /\ initPc = "done"

\* C16: when getSession answers with no session (provider mounted),
\* initializeAuth ends with user, session and profile null, the initial load
\* marked complete and loading false, and starts no profile fetch.
C16_InitWithoutSessionClearsAll ==
    [][(/\ op'.kind = "getSession" /\ op'.event = "session"
        /\ mounted /\ authUser = NoUser) =>
          /\ user' = NoUser /\ session' = NoSession /\ profile' = NoProfile
          /\ initialLoadComplete'
          /\ ~loading'
          /\ initPc' = "done"
          /\ fetches' = fetches
          /\ fetchingProfile' = fetchingProfile]_vars

C16_Witness ==
    /\ op.kind = "getSession" /\ op.event = "session"
    /\ mounted /\ authUser = NoUser
    /\ user = NoUser /\ session = NoSession /\ profile = NoProfile
    /\ initialLoadComplete
    /\ ~loading
    /\ initPc = "done"
    /\ fetches = << >>

\* C17: a signIn call that fails (a returned credential error or a thrown
\* exception) and a signUp call that fails change none of user, session and
\* profile, start no fetch and leave the completion mark alone; the failed
\* signIn, which set loading on entry, returns with loading false, and
\* signUp does not touch loading.
C17_FailedSignInLeavesState ==
    [][/\ (op'.kind = "signIn" /\ op'.event \in {"call", "error", "throw"}) =>
             /\ << user, session, profile >>' = << user, session, profile >>
             /\ << fetches, fetchingProfile, initialLoadComplete >>' =
                   << fetches, fetchingProfile, initialLoadComplete >>
             /\ op'.event \in {"error", "throw"} => ~loading'
       /\ (op'.kind = "signUp" /\ op'.event \in {"error", "throw"}) =>
             /\ << user, session, profile, loading >>' =
                   << user, session, profile, loading >>
             /\ << fetches, fetchingProfile, initialLoadComplete >>' =
                   << fetches, fetchingProfile, initialLoadComplete >>
      ]_vars

C17_Witness ==
    /\ op.kind = "signIn" /\ op.event \in {"error", "throw"}
    /\ signInPc = "idle"
    /\ user # NoUser
    /\ session \in Sessions
    /\ profile = ProfileRow(user)
    /\ ~loading

\* C18: whatever the value of the initialized flag the dashboard reads, it
\* shows the loading indicator when the flag is false, and the "role not
\* recognized" view when the flag is true, loading is false and the profile
\* is absent or its role is not a recognized one.
C18_DashboardFallbackView ==
    \A initialized \in BOOLEAN :
        /\ ~initialized => DashboardView(initialized) = "loading"
        /\ (/\ initialized
            /\ ~loading
            /\ (profile = NoProfile \/ profile.role \notin RecognizedRoles)) =>
              DashboardView(initialized) = "roleNotRecognized"

\* C19: while the provider is mounted, loading is true only if initializeAuth
\* has not finished, or the handler of an auth event is awaiting its profile
\* fetch, or a signIn or signOut call has not returned.
C19_LoadingOnlyWhileInFlight ==
    (mounted /\ loading) =>
        \/ initPc # "done"
        \/ HandlerWaiters > 0
        \/ signInPc # "idle"
        \/ signOutPc # "idle"

\* C20: the settling of a profile fetch, whatever its outcome, leaves user
\* and session as they were; a fetch settled by the timeout sets the profile
\* to null and keeps the signed-in principal and its session.
C20_FetchKeepsUserAndSession ==
    [][op'.kind = "settle" =>
          /\ user' = user
          /\ session' = session
          /\ op'.event = "timeout" => profile' = NoProfile]_vars

C20_Witness ==
    /\ op.kind = "settle" /\ op.event = "timeout"
    /\ user # NoUser /\ op.user = user
    /\ session \in Sessions /\ session.user = user
    /\ profile = NoProfile

\* C21: in every state the provider exposes while mounted, user is null
\* exactly when session is null, and otherwise user is the principal the
\* session belongs to.
C21_UserMatchesSession ==
    mounted => /\ (user = NoUser) <=> (session = NoSession)
               /\ session.user = user

\* C22: whenever no profile fetch is pending the in-flight slot is empty, so
\* that the next fetchProfile call starts a query.
C22_SlotEmptyWhenNothingPending ==
    fetches = << >> => fetchingProfile = 0

\* C23: when the handling of an auth event that replaced principal A by
\* another principal or by none is complete (the handler returned in the
\* turn of the event, or the fetch it awaited has settled with the new
\* principal still exposed), the profile is null or the new principal's.
C23_OldProfileNotKept ==
    [][/\ (/\ op'.kind = "event"
           /\ user # NoUser /\ user' # user
           /\ ~AwaitsFetch(fetches', op'.event, user')) =>
             (profile' = NoProfile \/ profile'.id = user')
       /\ (/\ op'.kind = "settle"
           /\ \E e \in Events : AwaitsFetch(fetches, e, user)
           /\ ~\E e \in Events : AwaitsFetch(fetches', e, user)) =>
             (profile' = NoProfile \/ profile'.id = user')
      ]_vars

\* C24: for every principal id, the profile queries issued for it never
\* outnumber the times the exposed user changed to it.
C24_QueriesWithinUserChanges ==
    credit >= 0

\* C25: when a profile fetch settles with a row, every fetchProfile(x) call
\* that awaited it was made for the id of that row: no call resolves to the
\* profile of another principal.
C25_CallResolvesToOwnProfile ==
    [][(op'.kind = "settle" /\ op'.event = "row") =>
          \A i \in 1..Len(fetches) :
              (\A k \in 1..Len(fetches') : fetches'[k].id # fetches[i].id) =>
                  \A j \in 1..Len(fetches[i].waiters) :
                      fetches[i].waiters[j].uid = profile'.id]_vars

\* C26: with the backend answering getSession and every signIn and signOut
\* call and the fetch timer firing, once a signIn call has returned without
\* error (its SIGNED_IN event handled), loading becomes false while the
\* provider stays mounted.
C26_LoadingClearsAfterSignIn ==
    (op.kind = "signIn" /\ op.event = "ok" /\ mounted) ~> (~loading \/ ~mounted)

\* C27: an INITIAL_SESSION event delivered after the initial load has been
\* marked complete changes none of session, user, profile and loading, and
\* starts or joins no profile fetch.
C27_LateInitialSessionIgnored ==
    [][(/\ op'.kind = "event" /\ op'.event = "INITIAL_SESSION"
        /\ initialLoadComplete) =>
          /\ << session, user, profile, loading >>' =
                << session, user, profile, loading >>
          /\ << fetches, fetchingProfile, initialLoadComplete >>' =
                << fetches, fetchingProfile, initialLoadComplete >>]_vars

\* Had the event been handled, the session of the backend's principal would
\* have been adopted.
C27_Witness ==
    /\ op.kind = "event" /\ op.event = "INITIAL_SESSION"
    /\ initialLoadComplete
    /\ authUser # NoUser
    /\ session = NoSession /\ user = NoUser

\* C28: a signOut call changes none of user, session and profile, neither
\* on entry nor on return, and returns with loading false whether the
\* backend call succeeded or threw.
C28_SignOutOnlyTouchesLoading ==
    [][op'.kind = "signOut" =>
          /\ << user, session, profile >>' = << user, session, profile >>
          /\ << fetches, fetchingProfile, initialLoadComplete >>' =
                << fetches, fetchingProfile, initialLoadComplete >>
          /\ op'.event \in {"ok", "throw"} => (~loading' /\ signOutPc' = "idle")
      ]_vars

C28_Witness ==
    /\ op.kind = "signOut" /\ op.event = "throw"
    /\ signOutPc = "idle"
    /\ user # NoUser
    /\ session \in Sessions
    /\ profile = ProfileRow(user)
    /\ ~loading

====
